---- MODULE Spec2Model ----
(***************************************************************************)
(* A model of the lax scanner (src/src/scanner.rs) and of the diagnostic   *)
(* session it reports to (src/src/main.rs).                                *)
(*                                                                         *)
(* Bytes are their ASCII codes.  Offsets are 0-based as in the source, so  *)
(* the byte at offset i of a buffer b is b[i + 1].  A slice of the source  *)
(* buffer is the pair of offsets [from, to).  A scan is followed one       *)
(* loop iteration at a time: pc is the position inside scan_tokens.        *)
(***************************************************************************)
EXTENDS Integers, Sequences, FiniteSets, TLC

\* Longest source buffer explored.
MaxLen == 4
\* Number of scan_tokens calls made on one scanner.
MaxCalls == 2

VARIABLES source, start, current, line, tokens, had_error, diags, rejected,
          reads, pc, calls

vars == <<source, start, current, line, tokens, had_error, diags, rejected,
          reads, pc, calls>>

----------------------------------------------------------------------------
\* Bytes.

NUL == 0
TAB == 9
LF == 10
CR == 13
SPACE == 32
BANG == 33
QUOTE == 34
LPAREN == 40
RPAREN == 41
STAR == 42
PLUS == 43
COMMA == 44
MINUS == 45
DOT == 46
SLASH == 47
SEMICOLON == 59
LESS == 60
EQUAL == 61
GREATER == 62
LBRACE == 123
RBRACE == 125

SingleChars == {LPAREN, RPAREN, LBRACE, RBRACE, COMMA, DOT, MINUS, PLUS,
                SEMICOLON, STAR}

SingleType(c) ==
    CASE c = LPAREN -> "LeftParen"
      [] c = RPAREN -> "RightParen"
      [] c = LBRACE -> "LeftBrace"
      [] c = RBRACE -> "RightBrace"
      [] c = COMMA -> "Comma"
      [] c = DOT -> "Dot"
      [] c = MINUS -> "Minus"
      [] c = PLUS -> "Plus"
      [] c = SEMICOLON -> "Semicolon"
      [] c = STAR -> "Star"

OperatorChars == {BANG, EQUAL, LESS, GREATER}

OperatorType(c, followed) ==
    CASE c = BANG -> IF followed THEN "BangEqual" ELSE "Bang"
      [] c = EQUAL -> IF followed THEN "EqualEqual" ELSE "Equal"
      [] c = LESS -> IF followed THEN "LessEqual" ELSE "Less"
      [] c = GREATER -> IF followed THEN "GreaterEqual" ELSE "Greater"

\* The whitespace arm without the carriage return.
WhitespaceChars_NoCR == {SPACE, TAB}

WhitespaceChars == {SPACE, CR, TAB}

is_digit(c) == c >= 48 /\ c <= 57

is_alpha(c) == (c >= 97 /\ c <= 122) \/ (c >= 65 /\ c <= 90) \/ c = 95

is_alpha_numeric(c) == is_alpha(c) \/ is_digit(c)

\* A keyword lookup that matches a keyword at the head of the span.
KeywordType_Prefix(span) ==
    CASE Len(span) >= 2 /\ SubSeq(span, 1, 2) = <<105, 102>> -> "If"
      [] Len(span) >= 2 /\ SubSeq(span, 1, 2) = <<111, 114>> -> "Or"
      [] Len(span) >= 3 /\ SubSeq(span, 1, 3) = <<102, 111, 114>> -> "For"
      [] OTHER -> "Identifier"

\* The spelling of an identifier-shaped span decides its token type.
KeywordType(span) ==
    CASE span = <<97, 110, 100>> -> "And"
      [] span = <<99, 108, 97, 115, 115>> -> "Class"
      [] span = <<101, 108, 115, 101>> -> "Else"
      [] span = <<102, 97, 108, 115, 101>> -> "False"
      [] span = <<102, 111, 114>> -> "For"
      [] span = <<102, 117, 110>> -> "Fun"
      [] span = <<105, 102>> -> "If"
      [] span = <<110, 105, 108>> -> "Nil"
      [] span = <<111, 114>> -> "Or"
      [] span = <<112, 114, 105, 110, 116>> -> "Print"
      [] span = <<114, 101, 116, 117, 114, 110>> -> "Return"
      [] span = <<115, 117, 112, 101, 114>> -> "Super"
      [] span = <<116, 104, 105, 115>> -> "This"
      [] span = <<116, 114, 117, 101>> -> "True"
      [] span = <<118, 97, 114>> -> "Var"
      [] span = <<119, 104, 105, 108, 101>> -> "While"
      [] OTHER -> "Identifier"

----------------------------------------------------------------------------
\* The scanner and its diagnostic session as one record, so that the
\* operations below are functions from state to state.

Cur ==
    [source |-> source, start |-> start, current |-> current, line |-> line,
     tokens |-> tokens, had_error |-> had_error, diags |-> diags,
     rejected |-> rejected, reads |-> reads, pc |-> pc]

\* The bytes of the half-open range [from, to) of a buffer.
Bytes(buf, from, to) == [i \in 1..(to - from) |-> buf[from + i]]

\* source[i]: the byte at offset i, noted in the set of offsets read.
Fetch(s, i) ==
    [val |-> IF i < Len(s.source) THEN s.source[i + 1] ELSE NUL,
     st |-> [s EXCEPT !.reads = @ \cup {i}]]

\* &source[from..to]: the offsets of the slice, each noted as read; a range
\* that is reversed or ends beyond the buffer notes the offset Len(source).
Slice(s, from, to) ==
    [val |-> <<from, to>>,
     st |-> [s EXCEPT !.reads = @ \cup (from..(to - 1))
                          \cup (IF from > to \/ to > Len(s.source)
                                THEN {Len(s.source)} ELSE {})]]

\* An end test that is one byte early.
is_at_end_OffByOne(s) == s.current + 1 >= Len(s.source)

is_at_end(s) == s.current >= Len(s.source)

peek(s) ==
    IF is_at_end(s) THEN [val |-> NUL, st |-> s] ELSE Fetch(s, s.current)

\* peek_next with the end test of peek.
peek_next_OffByOne(s) ==
    IF s.current >= Len(s.source)
    THEN [val |-> NUL, st |-> s]
    ELSE Fetch(s, s.current + 1)

peek_next(s) ==
    IF s.current + 1 >= Len(s.source)
    THEN [val |-> NUL, st |-> s]
    ELSE Fetch(s, s.current + 1)

advance(s) ==
    LET f == Fetch(s, s.current)
    IN  [val |-> f.val, st |-> [f.st EXCEPT !.current = @ + 1]]

\* check_next that reports a match without consuming the byte.
check_next_NoConsume(s, expected) ==
    IF is_at_end(s)
    THEN [val |-> FALSE, st |-> s]
    ELSE LET p == peek(s)
         IN  [val |-> p.val = expected, st |-> p.st]

check_next(s, expected) ==
    IF is_at_end(s)
    THEN [val |-> FALSE, st |-> s]
    ELSE LET p == peek(s)
         IN  IF p.val # expected
             THEN [val |-> FALSE, st |-> p.st]
             ELSE [val |-> TRUE, st |-> [p.st EXCEPT !.current = @ + 1]]

\* A token type without payload, a string's payload slice, a number's value.
Plain(tag) == [tag |-> tag, payload |-> <<>>]

add_token(s, token_type) ==
    LET lexeme == Slice(s, s.start, s.current)
    IN  [lexeme.st EXCEPT !.tokens =
            Append(@, [token_type |-> token_type, lexeme |-> lexeme.val,
                       line |-> s.line])]

\* error that flips the flag instead of setting it.
error_Toggles(s, at_line, message) ==
    [s EXCEPT !.diags = Append(@, [line |-> at_line, where |-> "",
                                   message |-> message]),
              !.had_error = ~@]

\* Lax::error: hand the diagnostic to the reporter and raise the flag.
error(s, at_line, message) ==
    [s EXCEPT !.diags = Append(@, [line |-> at_line, where |-> "",
                                   message |-> message]),
              !.had_error = TRUE]

----------------------------------------------------------------------------
\* fast_float::parse on a span made of digits with at most one inner '.'.
\* The decoder is a function of the span alone; which spans it refuses is
\* fixed per behaviour by the variable rejected.  An accepted span decodes
\* to the pair <<m, k>> standing for the value m / 10^k.

RECURSIVE DigitsValue(_)
DigitsValue(ds) ==
    IF ds = <<>> THEN 0
    ELSE 10 * DigitsValue(SubSeq(ds, 1, Len(ds) - 1)) + (ds[Len(ds)] - 48)

parse(span, refused) ==
    IF span \in refused
    THEN [ok |-> FALSE, val |-> <<>>]
    ELSE LET digits == SelectSeq(span, is_digit)
             dots == {i \in 1..Len(span) : span[i] = DOT}
             scale == IF dots = {} THEN 0
                      ELSE Len(span) - CHOOSE i \in dots : TRUE
         IN  [ok |-> TRUE, val |-> <<DigitsValue(digits), scale>>]

----------------------------------------------------------------------------
\* scan_tokens, one step at a time.  Each operator takes the state at a
\* position of scan_tokens and gives the state at the next position.

\* An entry that also rewinds the cursors and the line counter.
Enter_Rewinds(s) ==
    [s EXCEPT !.tokens = <<>>, !.start = 0, !.current = 0, !.line = 0,
              !.pc = "loop"]

\* Entry: self.tokens.clear().
Enter(s) == [s EXCEPT !.tokens = <<>>, !.pc = "loop"]

\* A return that skips the EOF token once an error was reported.
Finish_NoEofAfterError(s) ==
    IF s.had_error THEN [s EXCEPT !.pc = "done"]
    ELSE [s EXCEPT !.tokens = Append(@, [token_type |-> Plain("EOF"),
                                         lexeme |-> <<0, 0>>,
                                         line |-> s.line]),
                   !.pc = "done"]

\* After the loop: push the EOF token and return the tokens.
Finish(s) ==
    [s EXCEPT !.tokens = Append(@, [token_type |-> Plain("EOF"),
                                    lexeme |-> <<0, 0>>, line |-> s.line]),
              !.pc = "done"]

\* A token attempt that does not move start up to the cursor.
Begin_KeepsStart(s) == advance(s)

\* self.start = self.current; match self.advance()
Begin(s) == advance([s EXCEPT !.start = s.current])

ArmSingle(s) ==
    LET a == Begin(s) IN add_token(a.st, Plain(SingleType(a.val)))

ArmOperator(s) ==
    LET a == Begin(s)
        k == check_next(a.st, EQUAL)
    IN  add_token(k.st, Plain(OperatorType(a.val, k.val)))

ArmSlash(s) ==
    LET a == Begin(s)
        k == check_next(a.st, SLASH)
    IN  IF k.val THEN [k.st EXCEPT !.pc = "comment"]
        ELSE add_token(k.st, Plain("Slash"))

ArmWhitespace(s) == Begin(s).st

\* A newline arm that does not count the line.
ArmNewline_NoCount(s) == Begin(s).st

ArmNewline(s) == [Begin(s).st EXCEPT !.line = @ + 1]

ArmQuote(s) == [Begin(s).st EXCEPT !.pc = "string"]

ArmDigit(s) == [Begin(s).st EXCEPT !.pc = "digits"]

ArmAlpha(s) == [Begin(s).st EXCEPT !.pc = "ident"]

\* An unexpected byte that ends the scan.
ArmUnexpected_Fatal(s) ==
    LET a == Begin(s)
    IN  Finish(error(a.st, a.st.line, "unexpected character"))

ArmUnexpected(s) ==
    LET a == Begin(s) IN error(a.st, a.st.line, "unexpected character")

\* A comment loop without the end test.
CommentLoop_NoEndTest(s) ==
    LET p == peek(s)
    IN  IF p.val # LF
        THEN advance(p.st).st
        ELSE [p.st EXCEPT !.pc = "loop"]

\* A comment loop that stops only at the end of the buffer.
CommentLoop_EatsNewline(s) ==
    LET p == peek(s)
    IN  IF ~is_at_end(p.st)
        THEN advance(p.st).st
        ELSE [p.st EXCEPT !.pc = "loop"]

\* while self.peek() != b'\n' && !self.is_at_end() { self.advance(); }
CommentLoop(s) ==
    LET p == peek(s)
    IN  IF p.val # LF /\ ~is_at_end(p.st)
        THEN advance(p.st).st
        ELSE [p.st EXCEPT !.pc = "loop"]

\* An unterminated string that falls through to the String token.
Unterminated_FallsThrough(s) ==
    Finish(add_token(error(s, s.line, "unterminated string"),
                     [tag |-> "String",
                      payload |-> <<s.start + 1, s.current>>]))

\* if self.is_at_end() { error; break } and the code after the outer loop.
Unterminated(s) == Finish(error(s, s.line, "unterminated string"))

\* A string arm whose payload keeps the opening quote.
StringLoop_PayloadFromQuote(s) ==
    LET p == peek(s)
    IN  IF p.val # QUOTE /\ ~is_at_end(p.st)
        THEN LET q == peek(p.st)
                 counted == IF q.val = LF
                            THEN [q.st EXCEPT !.line = @ + 1] ELSE q.st
             IN  advance(counted).st
        ELSE IF is_at_end(p.st)
        THEN Unterminated(p.st)
        ELSE LET a == advance(p.st).st
                 payload == Slice(a, a.start, a.current - 1)
             IN  [add_token(payload.st,
                            [tag |-> "String", payload |-> payload.val])
                    EXCEPT !.pc = "loop"]

\* The string arm: the loop up to the closing quote, then either the
\* unterminated-string error and the break out of the outer loop, or the
\* closing quote and the String token.
StringLoop(s) ==
    LET p == peek(s)
    IN  IF p.val # QUOTE /\ ~is_at_end(p.st)
        THEN LET q == peek(p.st)
                 counted == IF q.val = LF
                            THEN [q.st EXCEPT !.line = @ + 1] ELSE q.st
             IN  advance(counted).st
        ELSE IF is_at_end(p.st)
        THEN Unterminated(p.st)
        ELSE LET a == advance(p.st).st
                 payload == Slice(a, a.start + 1, a.current - 1)
             IN  [add_token(payload.st,
                            [tag |-> "String", payload |-> payload.val])
                    EXCEPT !.pc = "loop"]

\* A decode failure that still leaves a token for the span.
Decode_Placeholder(s) ==
    LET span == Slice(s, s.start, s.current)
        r == parse(Bytes(s.source, s.start, s.current), s.rejected)
        token == add_token(span.st, [tag |-> "Number", payload |-> r.val])
    IN  [(IF r.ok THEN token
          ELSE error(token, token.line, "could not parse number"))
            EXCEPT !.pc = "loop"]

\* match fast_float::parse(&self.source[self.start..self.current])
Decode(s) ==
    LET span == Slice(s, s.start, s.current)
        r == parse(Bytes(s.source, s.start, s.current), s.rejected)
    IN  [(IF r.ok
          THEN add_token(span.st, [tag |-> "Number", payload |-> r.val])
          ELSE error(span.st, span.st.line, "could not parse number"))
            EXCEPT !.pc = "loop"]

\* A digit run that takes a following '.' whatever comes after it.
DigitsLoop_AbsorbsDot(s) ==
    LET p == peek(s)
    IN  IF is_digit(p.val) THEN advance(p.st).st
        ELSE LET d == peek(p.st)
             IN  IF d.val # DOT THEN Decode(d.st)
                 ELSE [advance(d.st).st EXCEPT !.pc = "fraction"]

\* The integer part, then the test for a '.' followed by a digit.
DigitsLoop(s) ==
    LET p == peek(s)
    IN  IF is_digit(p.val) THEN advance(p.st).st
        ELSE LET d == peek(p.st)
             IN  IF d.val # DOT THEN Decode(d.st)
                 ELSE LET n == peek_next(d.st)
                      IN  IF is_digit(n.val)
                          THEN [advance(n.st).st EXCEPT !.pc = "fraction"]
                          ELSE Decode(n.st)

\* A fraction loop that runs on through further dots.
FractionLoop_TakesDots(s) ==
    LET p == peek(s)
    IN  IF is_digit(p.val) \/ p.val = DOT THEN advance(p.st).st
        ELSE Decode(p.st)

FractionLoop(s) ==
    LET p == peek(s)
    IN  IF is_digit(p.val) THEN advance(p.st).st ELSE Decode(p.st)

IdentLoop(s) ==
    LET p == peek(s)
    IN  IF is_alpha_numeric(p.val) THEN advance(p.st).st
        ELSE LET span == Slice(p.st, p.st.start, p.st.current)
                 word == Bytes(s.source, s.start, s.current)
             IN  [add_token(span.st, Plain(KeywordType(word)))
                    EXCEPT !.pc = "loop"]

\* The arm the match takes on byte c.
Arm(s, c) ==
    CASE c \in SingleChars -> ArmSingle(s)
      [] c \in OperatorChars -> ArmOperator(s)
      [] c = SLASH -> ArmSlash(s)
      [] c \in WhitespaceChars -> ArmWhitespace(s)
      [] c = LF -> ArmNewline(s)
      [] c = QUOTE -> ArmQuote(s)
      [] is_digit(c) -> ArmDigit(s)
      [] is_alpha(c) -> ArmAlpha(s)
      [] OTHER -> ArmUnexpected(s)

\* The next position of scan_tokens from any position but the return.
Step(s) ==
    CASE s.pc = "ready" -> Enter(s)
      [] s.pc = "loop" -> IF is_at_end(s) THEN Finish(s)
                          ELSE Arm(s, s.source[s.current + 1])
      [] s.pc = "comment" -> CommentLoop(s)
      [] s.pc = "string" -> StringLoop(s)
      [] s.pc = "digits" -> DigitsLoop(s)
      [] s.pc = "fraction" -> FractionLoop(s)
      [] s.pc = "ident" -> IdentLoop(s)

\* scan_tokens from the position of s to its return.
RECURSIVE scan_tokens(_)
scan_tokens(s) == IF s.pc = "done" THEN s ELSE scan_tokens(Step(s))

----------------------------------------------------------------------------
\* Source buffers: every byte string of at most MaxLen bytes over one of a
\* few small alphabets, each gathering the bytes of one part of the lexicon.

Alphabets ==
    { {BANG, EQUAL, LESS, GREATER},
      {49, DOT, NUL, SPACE},
      {QUOTE, LF, 49, 64},
      {SLASH, LF, 49, 64},
      {SLASH, LF, QUOTE, LPAREN},
      {111, 114, 79, SPACE},
      {111, 114, 49, 95},
      {105, 102, 111, 114},
      {SPACE, TAB, CR, LF} }

SeqsUpTo(A, n) == UNION {[1..k -> A] : k \in 0..n}

Sources == UNION {SeqsUpTo(A, MaxLen) : A \in Alphabets}

\* What the number decoder refuses: nothing, or one numeric spelling.  A
\* refusal shows only on a buffer in which the spelling occurs.
RejectChoices == { {}, {<<49>>}, {<<49, DOT, 49>>} }

Occurs(w, buf) ==
    \E from \in 0..(Len(buf) - Len(w)) : Bytes(buf, from, from + Len(w)) = w

Init ==
    /\ source \in Sources
    /\ rejected \in {r \in RejectChoices : \A w \in r : Occurs(w, source)}
    /\ start = 0
    /\ current = 0
    /\ line = 0
    /\ tokens = <<>>
    /\ had_error = FALSE
    /\ diags = <<>>
    /\ reads = {}
    /\ pc = "ready"
    /\ calls = 0

Apply(n) ==
    /\ start' = n.start
    /\ current' = n.current
    /\ line' = n.line
    /\ tokens' = n.tokens
    /\ had_error' = n.had_error
    /\ diags' = n.diags
    /\ reads' = n.reads
    /\ pc' = n.pc
    /\ UNCHANGED <<source, rejected>>

AtByte(class) ==
    /\ pc = "loop"
    /\ ~is_at_end(Cur)
    /\ source[current + 1] \in class

Bytes256 == 0..255

Call ==
    /\ pc \in {"ready", "done"}
    /\ calls < MaxCalls
    /\ calls' = calls + 1
    /\ Apply(Enter(Cur))

Single == AtByte(SingleChars) /\ Apply(ArmSingle(Cur)) /\ UNCHANGED calls

Operator == AtByte(OperatorChars) /\ Apply(ArmOperator(Cur)) /\ UNCHANGED calls

Slash == AtByte({SLASH}) /\ Apply(ArmSlash(Cur)) /\ UNCHANGED calls

Whitespace ==
    AtByte(WhitespaceChars) /\ Apply(ArmWhitespace(Cur)) /\ UNCHANGED calls

Newline == AtByte({LF}) /\ Apply(ArmNewline(Cur)) /\ UNCHANGED calls

Quote == AtByte({QUOTE}) /\ Apply(ArmQuote(Cur)) /\ UNCHANGED calls

Digit ==
    AtByte({c \in Bytes256 : is_digit(c)}) /\ Apply(ArmDigit(Cur))
        /\ UNCHANGED calls

Alpha ==
    AtByte({c \in Bytes256 : is_alpha(c)}) /\ Apply(ArmAlpha(Cur))
        /\ UNCHANGED calls

Unexpected ==
    /\ AtByte({c \in Bytes256 :
                 /\ c \notin SingleChars \cup OperatorChars \cup WhitespaceChars
                 /\ c \notin {SLASH, LF, QUOTE}
                 /\ ~is_digit(c)
                 /\ ~is_alpha(c)})
    /\ Apply(ArmUnexpected(Cur))
    /\ UNCHANGED calls

Comment == pc = "comment" /\ Apply(CommentLoop(Cur)) /\ UNCHANGED calls

String == pc = "string" /\ Apply(StringLoop(Cur)) /\ UNCHANGED calls

Digits == pc = "digits" /\ Apply(DigitsLoop(Cur)) /\ UNCHANGED calls

Fraction == pc = "fraction" /\ Apply(FractionLoop(Cur)) /\ UNCHANGED calls

Ident == pc = "ident" /\ Apply(IdentLoop(Cur)) /\ UNCHANGED calls

Return ==
    /\ pc = "loop"
    /\ is_at_end(Cur)
    /\ Apply(Finish(Cur))
    /\ UNCHANGED calls

Next ==
    \/ Call
    \/ Single
    \/ Operator
    \/ Slash
    \/ Whitespace
    \/ Newline
    \/ Quote
    \/ Digit
    \/ Alpha
    \/ Unexpected
    \/ Comment
    \/ String
    \/ Digits
    \/ Fraction
    \/ Ident
    \/ Return

Spec == Init /\ [][Next]_vars

----------------------------------------------------------------------------
\* Vocabulary of the properties.

Returned == pc = "done"

IsEOF(t) == t.token_type.tag = "EOF"

NewlinesIn(buf, from, to) ==
    Cardinality({i \in from..(to - 1) : buf[i + 1] = LF})

Diag(at_line, message) == [line |-> at_line, where |-> "", message |-> message]

Messages(ds, message) == {i \in 1..Len(ds) : ds[i].message = message}

\* The byte k places after the cursor, or -1 beyond the buffer.
Ahead(k) == IF current + k < Len(source) THEN source[current + k + 1] ELSE -1

\* C1: whenever scan_tokens has returned, the returned sequence is
\* non-empty, its last token is EOF with an empty span, and no earlier
\* token is EOF.
C1_EndsWithOneEOF ==
    Returned =>
        /\ Len(tokens) >= 1
        /\ IsEOF(tokens[Len(tokens)])
        /\ tokens[Len(tokens)].lexeme[1] = tokens[Len(tokens)].lexeme[2]
        /\ \A i \in 1..(Len(tokens) - 1) : ~IsEOF(tokens[i])

\* A scan that met a lexical error and still produced tokens has returned.
C1_Witness ==
    /\ Returned
    /\ had_error
    /\ Len(tokens) >= 2

\* C2: in the returned sequence every non-EOF token's span [from, to) has
\* 0 <= from < to <= Len(source), and each non-EOF token starts at or after
\* the end of the token before it.
C2_SpansOrdered ==
    Returned =>
        \A i \in 1..Len(tokens) :
            ~IsEOF(tokens[i]) =>
                /\ 0 <= tokens[i].lexeme[1]
                /\ tokens[i].lexeme[1] < tokens[i].lexeme[2]
                /\ tokens[i].lexeme[2] <= Len(source)
                /\ i > 1 => tokens[i - 1].lexeme[2] <= tokens[i].lexeme[1]

\* Three tokens from a buffer that also holds bytes between them.
C2_Witness ==
    /\ Returned
    /\ Len(tokens) >= 3
    /\ tokens[1].lexeme[2] < tokens[2].lexeme[1]

\* C3: every offset read from the buffer, by advance, peek, peek_next or a
\* slice, is below the buffer length.
C3_ReadsInBounds == \A i \in reads : 0 <= i /\ i < Len(source)

\* A whole buffer was read and its scan ended on a number followed by a
\* '.', where peek_next looked past the last byte.
C3_Witness ==
    /\ Returned
    /\ Len(source) >= 2
    /\ reads = 0..(Len(source) - 1)
    /\ source[Len(source)] = DOT
    /\ is_digit(source[Len(source) - 1])

\* The scan is at the start of a token attempt, on a quote that no later
\* quote closes.
AtUnterminated ==
    /\ pc = "loop"
    /\ Ahead(0) = QUOTE
    /\ \A i \in (current + 1)..(Len(source) - 1) : source[i + 1] # QUOTE

\* C4: from an opening quote that is never closed, the scan returns the
\* tokens produced before the quote followed by the EOF token alone, having
\* reported one unterminated-string error, the only one of the scan, and
\* leaves had_error set.
C4_UnterminatedStops ==
    AtUnterminated =>
        LET r == scan_tokens(Cur)
            last == line + NewlinesIn(source, current + 1, Len(source))
        IN  /\ r.tokens = Append(tokens, [token_type |-> Plain("EOF"),
                                          lexeme |-> <<0, 0>>,
                                          line |-> last])
            /\ r.diags = Append(diags, Diag(last, "unterminated string"))
            /\ Cardinality(Messages(r.diags, "unterminated string")) = 1
            /\ r.had_error

\* A scan stopped by an unterminated string after it had produced a token.
C4_Witness ==
    /\ Returned
    /\ calls = 1
    /\ Len(tokens) >= 2
    /\ diags # <<>>
    /\ diags[Len(diags)].message = "unterminated string"

\* The scan is at the start of a token attempt, on a byte of no class.
AtUnexpected ==
    /\ pc = "loop"
    /\ Ahead(0) # -1
    /\ Ahead(0) \notin SingleChars \cup OperatorChars \cup WhitespaceChars
    /\ Ahead(0) \notin {SLASH, LF, QUOTE}
    /\ ~is_digit(Ahead(0))
    /\ ~is_alpha(Ahead(0))

\* C5: a byte of no class at the start of a token attempt is reported once
\* at the current line, sets had_error, moves the cursor one byte on, adds
\* no token and leaves the scan running; the scan then returns the tokens,
\* and reports the later diagnostics, it would had the byte been a space.
C5_UnexpectedSkipped ==
    AtUnexpected =>
        LET n == Step(Cur)
            r == scan_tokens(Cur)
            blank == scan_tokens([Cur EXCEPT !.source[current + 1] = SPACE])
            report == Diag(line, "unexpected character")
        IN  /\ n.current = current + 1
            /\ n.tokens = tokens
            /\ n.line = line
            /\ n.pc = "loop"
            /\ n.diags = Append(diags, report)
            /\ n.had_error
            /\ r.tokens = blank.tokens
            /\ r.diags = Append(diags, report)
                           \o SubSeq(blank.diags, Len(diags) + 1,
                                     Len(blank.diags))
            /\ r.had_error

\* A scan that skipped a first byte of no class and tokenized what follows.
C5_Witness ==
    /\ Returned
    /\ Len(source) >= 2
    /\ source[1] = 64
    /\ diags # <<>>
    /\ diags[1].message = "unexpected character"
    /\ Len(tokens) >= 2

\* The scan is about to hand the span [start, current) to the decoder.
AtDecode ==
    \/ /\ pc = "digits"
       /\ ~is_digit(Ahead(0))
       /\ ~(Ahead(0) = DOT /\ is_digit(Ahead(1)))
    \/ /\ pc = "fraction"
       /\ ~is_digit(Ahead(0))

\* C6: when the decoder refuses the span, the step reports one
\* malformed-number error at the current line, sets had_error, adds no
\* token and resumes at the first byte after the span; when it accepts,
\* the step adds one Number token covering the span and reports nothing.
C6_DecodeOutcome ==
    [][AtDecode =>
        /\ current' = current
        /\ line' = line
        /\ pc' = "loop"
        /\ IF Bytes(source, start, current) \in rejected
           THEN /\ tokens' = tokens
                /\ diags' = Append(diags, Diag(line, "could not parse number"))
                /\ had_error'
           ELSE /\ Len(tokens') = Len(tokens) + 1
                /\ SubSeq(tokens', 1, Len(tokens)) = tokens
                /\ tokens'[Len(tokens')].token_type.tag = "Number"
                /\ tokens'[Len(tokens')].lexeme = <<start, current>>
                /\ diags' = diags
                /\ had_error' = had_error]_vars

\* A scan that dropped a refused number and tokenized what follows.
C6_Witness ==
    /\ Returned
    /\ source # <<>>
    /\ is_digit(source[1])
    /\ diags # <<>>
    /\ diags[1].message = "could not parse number"
    /\ Len(tokens) >= 2

\* C7: had_error starts false and, once true, stays true through every
\* later step, the return and further scan_tokens calls included.
C7_StickyFlag == ~had_error /\ [][had_error => had_error']_vars

\* A second call has returned on a session that reported two errors.
C7_Witness ==
    /\ Returned
    /\ calls = 2
    /\ had_error
    /\ Len(diags) >= 2

\* C8: every returned token's line is the number of newlines before the
\* start of its span.
C8_LineWhereBegan ==
    Returned =>
        \A i \in 1..Len(tokens) :
            ~IsEOF(tokens[i]) =>
                tokens[i].line = NewlinesIn(source, 0, tokens[i].lexeme[1])

\* The bytes of token t's span.
Lexeme(t) == Bytes(source, t.lexeme[1], t.lexeme[2])

\* One or more digits, then at most once a '.' and one or more digits.
NumberShaped(w) ==
    /\ w # <<>>
    /\ \A i \in 1..Len(w) : is_digit(w[i]) \/ w[i] = DOT
    /\ Cardinality({i \in 1..Len(w) : w[i] = DOT}) <= 1
    /\ is_digit(w[1])
    /\ is_digit(w[Len(w)])

ByteAtOffset(i) == IF i < Len(source) THEN source[i + 1] ELSE -1

\* C9: a Number token's span is a digit run, extended by a '.' and a second
\* digit run exactly when a digit follows the '.': the span is number
\* shaped, no digit follows it, and a span without a '.' is not followed by
\* a '.' and a digit.  A '.' right after the span is the next token, a Dot.
C9_NumberSpan ==
    \A i \in 1..Len(tokens) :
        tokens[i].token_type.tag = "Number" =>
            LET w == Lexeme(tokens[i])
                to == tokens[i].lexeme[2]
            IN  /\ NumberShaped(w)
                /\ ~is_digit(ByteAtOffset(to))
                /\ (\A k \in 1..Len(w) : w[k] # DOT) =>
                       ~(ByteAtOffset(to) = DOT /\ is_digit(ByteAtOffset(to + 1)))
                /\ (Returned /\ ByteAtOffset(to) = DOT) =>
                       /\ i < Len(tokens)
                       /\ tokens[i + 1].token_type.tag = "Dot"
                       /\ tokens[i + 1].lexeme = <<to, to + 1>>

\* A number with a fraction, then the '.' after it as a Dot token.
C9_Witness ==
    /\ Returned
    /\ Len(tokens) >= 3
    /\ tokens[1].token_type.tag = "Number"
    /\ tokens[1].lexeme = <<0, 3>>
    /\ tokens[2].token_type.tag = "Dot"

\* The scan is at the start of a token attempt, on one of ! = < >.
AtOperator ==
    /\ pc = "loop"
    /\ Ahead(0) \in OperatorChars

OneCharCategory(c) ==
    CASE c = BANG -> "Bang" [] c = EQUAL -> "Equal"
      [] c = LESS -> "Less" [] c = GREATER -> "Greater"

TwoCharCategory(c) ==
    CASE c = BANG -> "BangEqual" [] c = EQUAL -> "EqualEqual"
      [] c = LESS -> "LessEqual" [] c = GREATER -> "GreaterEqual"

\* C10: on one of ! = < > the step adds exactly one token: the two-byte
\* token of the two-character category when the next byte is '=', else the
\* one-byte token of the one-character category with the cursor left on
\* the next byte.
C10_OneOrTwoChars ==
    [][AtOperator =>
        LET two == Ahead(1) = EQUAL
            width == IF two THEN 2 ELSE 1
            category == IF two THEN TwoCharCategory(Ahead(0))
                        ELSE OneCharCategory(Ahead(0))
        IN  /\ tokens' = Append(tokens, [token_type |-> Plain(category),
                                         lexeme |-> <<current, current + width>>,
                                         line |-> line])
            /\ current' = current + width
            /\ pc' = "loop"]_vars

\* A two-character operator, then a one-character one that ends the buffer.
C10_Witness ==
    /\ Returned
    /\ Len(tokens) = 3
    /\ tokens[1].token_type.tag \in {"BangEqual", "EqualEqual", "LessEqual",
                                     "GreaterEqual"}
    /\ tokens[2].token_type.tag \in {"Bang", "Less", "Greater"}
    /\ tokens[2].lexeme[2] = Len(source)

\* scan_tokens from the position of s to the next test of the outer loop,
\* or to the return.
RECURSIVE ToLoop(_)
ToLoop(s) == IF s.pc \in {"loop", "done"} THEN s ELSE ToLoop(Step(s))

\* The first offset at or after from that holds byte c, or Len(source).
FirstAt(c, from) ==
    IF \E i \in from..(Len(source) - 1) : source[i + 1] = c
    THEN CHOOSE i \in from..(Len(source) - 1) :
            /\ source[i + 1] = c
            /\ \A j \in from..(i - 1) : source[j + 1] # c
    ELSE Len(source)

\* The 16 reserved spellings and their categories.
Reserved ==
    { <<"And", <<97, 110, 100>> >>,
      <<"Class", <<99, 108, 97, 115, 115>> >>,
      <<"Else", <<101, 108, 115, 101>> >>,
      <<"False", <<102, 97, 108, 115, 101>> >>,
      <<"For", <<102, 111, 114>> >>,
      <<"Fun", <<102, 117, 110>> >>,
      <<"If", <<105, 102>> >>,
      <<"Nil", <<110, 105, 108>> >>,
      <<"Or", <<111, 114>> >>,
      <<"Print", <<112, 114, 105, 110, 116>> >>,
      <<"Return", <<114, 101, 116, 117, 114, 110>> >>,
      <<"Super", <<115, 117, 112, 101, 114>> >>,
      <<"This", <<116, 104, 105, 115>> >>,
      <<"True", <<116, 114, 117, 101>> >>,
      <<"Var", <<118, 97, 114>> >>,
      <<"While", <<119, 104, 105, 108, 101>> >> }

WordTags == {"Identifier"} \cup {r[1] : r \in Reserved}

\* The scan is at the start of a token attempt, on a letter or underscore.
AtWord ==
    /\ pc = "loop"
    /\ Ahead(0) # -1
    /\ is_alpha(Ahead(0))

\* C11: from a letter or underscore the scan adds one token whose span is
\* the maximal run of letters, digits and underscores, and whose category is
\* a keyword exactly when the span equals that keyword's spelling, and
\* Identifier otherwise.
C11_WordsAndKeywords ==
    AtWord =>
        LET n == ToLoop(Step(Cur))
            to == CHOOSE e \in (current + 1)..Len(source) :
                    /\ \A i \in current..(e - 1) : is_alpha_numeric(source[i + 1])
                    /\ e < Len(source) => ~is_alpha_numeric(source[e + 1])
            word == Bytes(source, current, to)
            category == IF \E r \in Reserved : r[2] = word
                        THEN (CHOOSE r \in Reserved : r[2] = word)[1]
                        ELSE "Identifier"
        IN  /\ n.tokens = Append(tokens, [token_type |-> Plain(category),
                                          lexeme |-> <<current, to>>,
                                          line |-> line])
            /\ n.current = to
            /\ n.diags = diags

\* A keyword, then an identifier in another letter case or one that only
\* begins with a keyword.
C11_Witness ==
    /\ Returned
    /\ Len(tokens) = 3
    /\ tokens[1].token_type.tag = "Or"
    /\ tokens[2].token_type.tag = "Identifier"
    /\ \/ Lexeme(tokens[2]) = <<79>>
       \/ /\ Len(source) > MaxLen
          /\ SubSeq(Lexeme(tokens[2]), 1, 2) = <<111, 114>>

\* The scan is at the start of a token attempt, on a '/'.
AtSlash ==
    /\ pc = "loop"
    /\ Ahead(0) = SLASH

\* C12: from "//" the scan comes back to the outer loop on the next newline,
\* or at the end of the buffer, with no token added, nothing reported and
\* the line unchanged; the newline is then consumed by the next iteration,
\* which adds one to the line.  A '/' not followed by '/' adds a Slash
\* token of one byte.
C12_LineComment ==
    AtSlash =>
        IF Ahead(1) = SLASH
        THEN LET n == ToLoop(Step(Cur))
                 stop == FirstAt(LF, current + 2)
             IN  /\ n.pc = "loop"
                 /\ n.current = stop
                 /\ n.tokens = tokens
                 /\ n.diags = diags
                 /\ n.had_error = had_error
                 /\ n.line = line
                 /\ stop < Len(source) =>
                        /\ Step(n).current = stop + 1
                        /\ Step(n).line = line + 1
                        /\ Step(n).tokens = tokens
        ELSE LET n == Step(Cur)
             IN  /\ n.tokens = Append(tokens, [token_type |-> Plain("Slash"),
                                               lexeme |-> <<current, current + 1>>,
                                               line |-> line])
                 /\ n.current = current + 1
                 /\ n.pc = "loop"

\* A comment holding a quote, a digit or a byte of no class, closed by a
\* newline, has been scanned without a token or a report.
C12_Witness ==
    /\ Returned
    /\ Len(source) = 4
    /\ source[1] = SLASH
    /\ source[2] = SLASH
    /\ source[3] \in {QUOTE, 49, 64}
    /\ source[4] = LF
    /\ line = 1
    /\ Len(tokens) = 1
    /\ diags = <<>>

\* The scan is at the start of a token attempt, on a quote that a later
\* quote closes.
AtTerminated ==
    /\ pc = "loop"
    /\ Ahead(0) = QUOTE
    /\ FirstAt(QUOTE, current + 1) < Len(source)

\* C13: from an opening quote with a later quote the scan adds one String
\* token whose span runs from the opening quote through the first later
\* quote, and whose payload is the span without its first and last byte.
C13_StringToken ==
    AtTerminated =>
        LET n == ToLoop(Step(Cur))
            close == FirstAt(QUOTE, current + 1)
        IN  /\ Len(n.tokens) = Len(tokens) + 1
            /\ SubSeq(n.tokens, 1, Len(tokens)) = tokens
            /\ n.tokens[Len(n.tokens)].token_type =
                   [tag |-> "String", payload |-> <<current + 1, close>>]
            /\ n.tokens[Len(n.tokens)].lexeme = <<current, close + 1>>
            /\ n.current = close + 1
            /\ n.diags = diags

\* A string with at least one byte between its quotes has been returned.
C13_Witness ==
    /\ Returned
    /\ \E i \in 1..Len(tokens) :
          /\ tokens[i].token_type.tag = "String"
          /\ tokens[i].token_type.payload[1] < tokens[i].token_type.payload[2]
          /\ tokens[i].lexeme[2] - tokens[i].lexeme[1] >= 3

\* C14: a buffer of spaces, tabs, carriage returns and newlines only, the
\* empty buffer included, returns the EOF token alone and reports nothing.
C14_BlankBuffer ==
    (Returned /\ \A i \in 1..Len(source) : source[i] \in {SPACE, TAB, CR, LF})
        => /\ Len(tokens) = 1
           /\ IsEOF(tokens[1])
           /\ diags = <<>>
           /\ ~had_error

\* A buffer holding each of the four blank bytes has been scanned.
C14_Witness ==
    /\ Returned
    /\ calls = 1
    /\ {source[i] : i \in 1..Len(source)} = {SPACE, TAB, CR, LF}
    /\ Len(tokens) = 1

\* C16: in every state of a scanning session 0 <= start <= current <=
\* Len(source).
C16_CursorsOrdered ==
    /\ 0 <= start
    /\ start <= current
    /\ current <= Len(source)

\* A scan is inside a token that began after the first byte, with bytes
\* still ahead of the cursor.
C16_Witness ==
    /\ pc \in {"comment", "string", "digits", "fraction", "ident"}
    /\ 0 < start
    /\ start < current
    /\ current < Len(source)

\* C17: every step adds to line the number of newline bytes it consumes, so
\* line never decreases; at each test of the outer loop and at the return
\* line is the number of newlines in source[0..current), and the EOF token
\* carries that line.
C17_LineCounts ==
    /\ [](pc \in {"loop", "done"} =>
            /\ line = NewlinesIn(source, 0, current)
            /\ Returned => tokens[Len(tokens)].line = line)
    /\ [][line' = line + NewlinesIn(source, current, current')]_vars

\* A scan has returned after consuming a newline at top level and one
\* inside a string.
C17_Witness ==
    /\ Returned
    /\ line = 2
    /\ \E i \in 1..Len(source) :
          /\ source[i] = LF
          /\ \E j \in 1..(i - 1) : source[j] = QUOTE
    /\ source[1] = LF

InnerLoops == {"comment", "string", "digits", "fraction", "ident"}

\* What is left of a call: three for each byte ahead of the cursor, plus
\* the rank of the position inside scan_tokens.
Remaining ==
    3 * (Len(source) - current)
      + (CASE pc = "ready" -> 3
           [] pc \in InnerLoops -> 2
           [] pc = "loop" -> 1
           [] pc = "done" -> 0)

\* C18: the scan returns: until the return a step can always be taken and
\* each step brings the return nearer; each iteration of the outer loop and
\* of an inner loop moves current forward; at the return current is
\* Len(source).
C18_Terminates ==
    /\ [](/\ Remaining >= 0
          /\ ~Returned => Step(Cur) # Cur
          /\ Returned => current = Len(source))
    /\ [][/\ ~Returned => Remaining' < Remaining
          /\ (pc = "loop" /\ Ahead(0) # -1) => current' > current
          /\ (pc \in InnerLoops /\ pc' \in InnerLoops) => current' > current]_vars

\* A scan stopped by an unterminated string has returned at the end of a
\* buffer it had crossed byte by byte.
C18_Witness ==
    /\ Returned
    /\ calls = 1
    /\ Len(source) >= 3
    /\ current = Len(source)
    /\ Messages(diags, "unterminated string") # {}

\* C19: a further call on a scanner whose call has returned leaves start,
\* current and line as they were and returns the EOF token alone, at the
\* line the earlier call ended on, with no report and had_error unchanged.
C19_SecondCall ==
    Returned =>
        LET r == scan_tokens(Enter(Cur))
        IN  /\ r.tokens = <<[token_type |-> Plain("EOF"), lexeme |-> <<0, 0>>,
                             line |-> line]>>
            /\ r.start = start
            /\ r.current = current
            /\ r.line = line
            /\ r.diags = diags
            /\ r.had_error = had_error

\* A second call has returned on a scanner whose first call crossed a
\* newline, met no string and reported an error.
C19_Witness ==
    /\ Returned
    /\ calls = 2
    /\ Len(tokens) = 1
    /\ tokens[1].line >= 1
    /\ had_error
    /\ \A i \in 1..Len(source) : source[i] # QUOTE
    /\ \E i \in 1..Len(source) : source[i] \in SingleChars \cup {49}

\* A malformed-number report is the last one made by the step.
ReportsMalformed ==
    /\ Len(diags') = Len(diags) + 1
    /\ diags'[Len(diags')].message = "could not parse number"

\* C20: every span handed to the decoder is one or more digits, then at
\* most once a '.' and one or more digits; a malformed-number error is
\* reported only by a step that hands over such a span, which the decoder
\* refuses.
C20_DecoderInput ==
    /\ [](AtDecode => NumberShaped(Bytes(source, start, current)))
    /\ [][ReportsMalformed =>
            /\ AtDecode
            /\ NumberShaped(Bytes(source, start, current))
            /\ Bytes(source, start, current) \in rejected]_vars

\* A number with a fraction is handed over with a '.' right after it.
C20_Witness ==
    /\ AtDecode
    /\ pc = "fraction"
    /\ current - start = 3
    /\ Ahead(0) = DOT

====
